---- MODULE Spec2Model ----
(***************************************************************************)
(* Model of src/app.py, the Mini Hydraulic Power Plant calculator.         *)
(*                                                                         *)
(* The program computes with Python floats, i.e. IEEE-754 binary64 with    *)
(* round-to-nearest-even.  The model keeps that arithmetic: a float is a   *)
(* sign, a 53-bit significand and a binary exponent, and *, / and sqrt     *)
(* round exactly as the hardware does.  Significands do not fit TLC's      *)
(* integers, so naturals are little-endian sequences of 15-bit limbs.      *)
(* The exponent is an unbounded integer: the magnitudes that occur here   *)
(* are far from overflow and underflow.                                    *)
(***************************************************************************)
EXTENDS Integers, Sequences, FiniteSets, TLC

-----------------------------------------------------------------------------
(* Natural numbers of arbitrary size: <<l1, l2, ...>> is l1 + l2*Base + ...  *)
(* with no leading (last) zero limb; zero is << >>.                          *)

LimbBits == 15
Base == 2 ^ LimbBits

Max2(a, b) == IF a >= b THEN a ELSE b
Min2(a, b) == IF a <= b THEN a ELSE b

\* e, with v evaluated first: TLC evaluates the arguments of an operator only
\* when they are used, and a recursion that passes them on unevaluated piles
\* up pending computations
Force(v, e) == IF v = v THEN e ELSE e

Limb(a, i) == IF i >= 1 /\ i <= Len(a) THEN a[i] ELSE 0

\* a without its leading zero limbs
BTrim(a) ==
    Force(a,
    LET nz == {i \in 1..Len(a) : a[i] # 0}
    IN  IF nz = {} THEN << >>
        ELSE SubSeq(a, 1, CHOOSE i \in nz : \A j \in nz : j <= i))

\* a Python int 0 <= n < 2^31
BInt(n) == BTrim(<<n % Base, (n \div Base) % Base, n \div (Base * Base)>>)

\* a + b; the carry into limb i is found by looking back for the limb that
\* generated it
BAdd(a, b) ==
    Force(<<a, b>>,
    LET n == Max2(Len(a), Len(b))
        s == [i \in 1..n |-> Limb(a, i) + Limb(b, i)]
        c == [i \in 1..(n + 1) |->
                 IF \E j \in 1..(i - 1) :
                        s[j] >= Base /\ \A k \in (j + 1)..(i - 1) : s[k] = Base - 1
                 THEN 1 ELSE 0]
    IN  BTrim([i \in 1..(n + 1) |-> IF i <= n THEN (s[i] + c[i]) % Base ELSE c[i]]))

\* a - b for a >= b
BSub(a, b) ==
    Force(<<a, b>>,
    LET br == [i \in 1..Len(a) |->
                  IF \E j \in 1..(i - 1) :
                         /\ a[j] < Limb(b, j)
                         /\ \A k \in (j + 1)..(i - 1) : a[k] = Limb(b, k)
                  THEN 1 ELSE 0]
    IN  BTrim([i \in 1..Len(a) |-> (a[i] - Limb(b, i) - br[i] + Base) % Base]))

\* -1, 0, 1 as a < b, a = b, a > b
BCmp(a, b) ==
    Force(<<a, b>>,
    IF Len(a) > Len(b) THEN 1
    ELSE IF Len(a) < Len(b) THEN -1
    ELSE LET df == {i \in 1..Len(a) : a[i] # b[i]}
             h == CHOOSE i \in df : \A j \in df : j <= i
         IN  IF df = {} THEN 0 ELSE IF a[h] > b[h] THEN 1 ELSE -1)

\* a * k for 0 <= k < Base
BMulSmall(a, k) ==
    Force(a,
    BAdd([i \in 1..Len(a) |-> (a[i] * k) % Base],
         [i \in 1..(Len(a) + 1) |-> IF i = 1 THEN 0 ELSE (a[i - 1] * k) \div Base]))

BShlLimbs(a, n) == IF a = << >> THEN a ELSE [i \in 1..n |-> 0] \o a

RECURSIVE BMulFrom(_, _, _)
BMulFrom(a, b, j) ==
    IF j > Len(b) THEN << >>
    ELSE BAdd(BShlLimbs(BMulSmall(a, b[j]), j - 1), BMulFrom(a, b, j + 1))

BMul(a, b) == Force(<<a, b>>, BMulFrom(a, b, 1))

\* a * 2^n
BShl(a, n) == Force(a, BShlLimbs(BMulSmall(a, 2 ^ (n % LimbBits)), n \div LimbBits))

\* floor(a / 2^n)
BShr(a, n) ==
    Force(a,
    LET q == n \div LimbBits
        r == n % LimbBits
        d == IF q >= Len(a) THEN << >> ELSE SubSeq(a, q + 1, Len(a))
    IN  BTrim([i \in 1..Len(d) |->
                  (d[i] \div (2 ^ r)) + (Limb(d, i + 1) % (2 ^ r)) * (2 ^ (LimbBits - r))]))

\* a mod 2^n
BLow(a, n) == Force(a, BSub(a, BShl(BShr(a, n), n)))

\* number of bits of a limb
LimbBitLen(n) == Cardinality({k \in 0..(LimbBits - 1) : 2 ^ k <= n})

BBitLen(a) == Force(a, IF a = << >> THEN 0 ELSE LimbBits * (Len(a) - 1) + LimbBitLen(a[Len(a)]))

BOdd(a) == a # << >> /\ a[1] % 2 = 1

\* the largest d among dh, dh - 1, dh - 2 with P(d) <= r, where P(d) is
\* BMulSmall(BAdd(u, <<d>>), d) if sq and BMulSmall(u, d) otherwise
Digit(r, u, dh, sq) ==
    LET P(d) == IF sq THEN BMulSmall(BAdd(u, <<d>>), d) ELSE BMulSmall(u, d)
    IN  Force(dh,
        IF BCmp(P(dh), r) <= 0 THEN dh
        ELSE IF BCmp(P(dh - 1), r) <= 0 THEN dh - 1
        ELSE dh - 2)

\* long division (Knuth's algorithm D) of limbs i, i-1, .. 1 of a by b, whose
\* top limb is at least Base / 2, with r < b the running remainder
RECURSIVE BDivFrom(_, _, _, _)

\* the quotient digit for the remainder r1, estimated from its top two limbs
BDivDigit(r1, b) ==
    Digit(r1, b, Min2(Base - 1, (Limb(r1, Len(b) + 1) * Base + Limb(r1, Len(b))) \div b[Len(b)]),
          FALSE)

BDivOut(rest, d) == [q |-> rest.q \o <<d>>, r |-> rest.r]

BDivNext(a, b, i, r1, d) ==
    Force(d, BDivOut(BDivFrom(a, b, i - 1, BSub(r1, BMulSmall(b, d))), d))

BDivWith(a, b, i, r1) ==
    Force(r1, BDivNext(a, b, i, r1, BDivDigit(r1, b)))

BDivFrom(a, b, i, r) ==
    IF i = 0 THEN [q |-> << >>, r |-> r]
    ELSE BDivWith(a, b, i, BTrim(<<a[i]>> \o r))

BDivUnshift(d, sh) == [q |-> BTrim(d.q), r |-> BShr(d.r, sh)]

BDivNorm(an, bn) ==
    Force(<<an, bn>>,
    BDivFrom(an, bn, Len(an) - Len(bn) + 1, SubSeq(an, Len(an) - Len(bn) + 2, Len(an))))

BDivShifted(a, b, sh) == BDivUnshift(BDivNorm(BShl(a, sh), BShl(b, sh)), sh)

\* [q, r] with a = q*b + r, 0 <= r < b, for b > 0
BDivMod(a, b) ==
    Force(<<a, b>>,
    IF BCmp(a, b) < 0 THEN [q |-> << >>, r |-> a]
    ELSE BDivShifted(a, b, LimbBits - LimbBitLen(b[Len(b)])))

\* floor(sqrt(t)) for 0 <= t < Base * Base
IntSqrt(t) ==
    LET w == 2 ^ 7
        h == CHOOSE x \in 0..(Base \div w - 1) :
                 (x * w) * (x * w) <= t /\ (x = Base \div w - 1 \/ (x * w + w) * (x * w + w) > t)
    IN  CHOOSE d \in (h * w)..(h * w + w - 1) :
            d * d <= t /\ (d = Base - 1 \/ (d + 1) * (d + 1) > t)

\* digit-by-digit square root over limb pairs j, j-1, .. 1 of a, with s the
\* root so far, at least Base / 2, and r the running remainder
RECURSIVE BSqrtFrom(_, _, _, _)

\* the root digit for the remainder r1 and the doubled root s2, estimated by
\* the quotient est of r1 by s2
BSqrtDigit(r1, s2, est) ==
    Force(est, Digit(r1, s2, IF Len(est) > 1 THEN Base - 1 ELSE Limb(est, 1), TRUE))

BSqrtNext(a, j, s, r1, s2, d) ==
    Force(d,
    BSqrtFrom(a, j - 1, BTrim(<<d>> \o s), BSub(r1, BMulSmall(BAdd(s2, <<d>>), d))))

BSqrtWith(a, j, s, r1, s2) ==
    Force(<<r1, s2>>, BSqrtNext(a, j, s, r1, s2, BSqrtDigit(r1, s2, BDivMod(r1, s2).q)))

BSqrtFrom(a, j, s, r) ==
    IF j = 0 THEN [s |-> s, r |-> r]
    ELSE BSqrtWith(a, j, s, BTrim(<<a[2 * j - 1], a[2 * j]>> \o r), BShlLimbs(BAdd(s, s), 1))

BSqrtTop(a, t, d) == Force(d, BSqrtFrom(a, Len(a) \div 2 - 1, <<d>>, BInt(t - d * d)))

\* [s, r] with a = s*s + r, 0 <= r <= 2s, for a of an even number of limbs
\* whose top limb is at least Base / 4
BSqrtRem(a) ==
    Force(a, BSqrtTop(a, a[Len(a)] * Base + a[Len(a) - 1],
                      IntSqrt(a[Len(a)] * Base + a[Len(a) - 1])))

-----------------------------------------------------------------------------
(* Python float: [s, m, e] is (-1)^s * m * 2^e, with m of exactly MantBits  *)
(* bits, or m = << >> and e = 0 for zero.                                    *)

MantBits == 53

FZero(s) == [s |-> s, m |-> << >>, e |-> 0]

\* (-1)^s * q * 2^e, where q has MantBits bits or is 2^MantBits
FNormal(s, q, e) ==
    Force(q,
    IF BBitLen(q) > MantBits THEN [s |-> s, m |-> BShr(q, 1), e |-> e + 1]
    ELSE [s |-> s, m |-> q, e |-> e])

\* round up iff the cut-off part is above one half (c = 1), or is one half
\* (c = 0) and something lies beyond it or q is odd
FRoundUp(q, c, sticky) == c = 1 \/ (c = 0 /\ (sticky \/ BOdd(q)))

\* n has sh bits too many; q is n without them
FRoundCut(s, n, e, sticky, sh, q) ==
    Force(q,
    FNormal(s,
            IF FRoundUp(q, BCmp(BLow(n, sh), BShl(<<1>>, sh - 1)), sticky)
            THEN BAdd(q, <<1>>) ELSE q,
            e + sh))

FRoundLen(s, n, e, sticky, L) ==
    IF L = 0 THEN FZero(s)
    ELSE IF L <= MantBits
    THEN [s |-> s, m |-> BShl(n, MantBits - L), e |-> e - (MantBits - L)]
    ELSE FRoundCut(s, n, e, sticky, L - MantBits, BShr(n, L - MantBits))

\* (-1)^s * (n + d) * 2^e rounded to nearest, ties to even, where 0 < d < 1
\* if sticky and d = 0 otherwise
FRound(s, n, e, sticky) == Force(n, FRoundLen(s, n, e, sticky, BBitLen(n)))

\* float(n) for a Python int n
FInt(n) == FRound(IF n < 0 THEN 1 ELSE 0, BInt(IF n < 0 THEN 0 - n ELSE n), 0, FALSE)

FIsZero(x) == x.m = << >>

\* x * y
FMul(x, y) ==
    IF FIsZero(x) \/ FIsZero(y) THEN FZero((x.s + y.s) % 2)
    ELSE FRound((x.s + y.s) % 2, BMul(x.m, y.m), x.e + y.e, FALSE)

FDivRound(s, d, e) == Force(d, FRound(s, d.q, e, d.r # << >>))

\* x / y; Python raises ZeroDivisionError for y == 0
FDiv(x, y) ==
    IF FIsZero(y) THEN [raise |-> "ZeroDivisionError"]
    ELSE IF FIsZero(x) THEN FZero((x.s + y.s) % 2)
    ELSE FDivRound((x.s + y.s) % 2, BDivMod(BShl(x.m, MantBits + 2), y.m),
                   x.e - y.e - (MantBits + 2))

FSqrtRound(h, e) == Force(h, FRound(0, h.s, e, h.r # << >>))

\* math.sqrt(x) for x >= 0: the significand is shifted by k bits to 8 limbs
\* with an even exponent left
FSqrtShift(x, k) == FSqrtRound(BSqrtRem(BShl(x.m, k)), (x.e - k) \div 2)

FSqrt(x) ==
    IF FIsZero(x) THEN x
    ELSE FSqrtShift(x, IF x.e % 2 = 0 THEN 66 ELSE 67)

\* -1, 0, 1 as x < y, x == y, x > y
FCmpMag(x, y) ==
    IF FIsZero(x) /\ FIsZero(y) THEN 0
    ELSE IF FIsZero(x) THEN -1
    ELSE IF FIsZero(y) THEN 1
    ELSE IF x.e > y.e THEN 1
    ELSE IF x.e < y.e THEN -1
    ELSE BCmp(x.m, y.m)

FCmp(x, y) ==
    IF FIsZero(x) /\ FIsZero(y) THEN 0
    ELSE IF x.s = 0 /\ y.s = 1 THEN (IF FIsZero(x) /\ FIsZero(y) THEN 0 ELSE 1)
    ELSE IF x.s = 1 /\ y.s = 0 THEN -1
    ELSE IF x.s = 0 THEN FCmpMag(x, y)
    ELSE FCmpMag(y, x)

FEq(x, y) == FCmp(x, y) = 0
FLe(x, y) == FCmp(x, y) <= 0
FLt(x, y) == FCmp(x, y) < 0
FGt(x, y) == FCmp(x, y) > 0

\* the float a decimal literal or a typed decimal denotes: n / d correctly rounded
FDec(n, d) == FDiv(FInt(n), FInt(d))

\* math.pi = 0x1921FB54442D18 * 2^-51
Pi == [s |-> 0, m |-> <<11544, 10376, 2029, 201>>, e |-> 0 - 51]

-----------------------------------------------------------------------------
(* Bounds of the model: the decimals, in thousandths, the user can type     *)
(* into the widgets and a caller can pass to the helper functions.           *)

MaxQMilli == 5
MaxVMilli == 0
MaxHMilli == 0
MaxArgMilli == 5

\* typed discharges: 0.000 .. MaxQMilli/1000, 0.029, the default 50.000, 100.000
QMilli == (0 .. MaxQMilli) \cup {29, 50000, 100000}
\* typed velocities: 0.000 .. MaxVMilli/1000 and the default 3.000
VMilli == (0 .. MaxVMilli) \cup {3000}
\* typed heads: 0.000 .. MaxHMilli/1000, 20.000 and the default 25.000
HMilli == (0 .. MaxHMilli) \cup {20000, 25000}
\* typed efficiencies in percent: the defaults 85 and 90, and the maximum
EtaTurbinePct == {85, 100}
EtaGeneratorPct == {90, 100}

QInputs == {FDec(n, 1000) : n \in QMilli}
VInputs == {FDec(n, 1000) : n \in VMilli}
HInputs == {FDec(n, 1000) : n \in HMilli}

\* arguments of direct calls of the helper functions
ValArgs == {FDec(n, 1000) : n \in (0 - MaxArgMilli .. MaxArgMilli) \cup {29, 3000, 50000}}
QArgs == {FDec(n, 1000) : n \in (0 - 1 .. MaxArgMilli) \cup {29, 100000}}
VArgs == {FDec(n, 1000) : n \in (0 - MaxArgMilli .. MaxArgMilli) \cup {3000, 6000}}
HArgs == {FDec(n, 1000) : n \in (0 .. MaxArgMilli) \cup {49999, 50000, 50001, 299999, 300000, 300001}}
PArgs == {FInt(n) : n \in (0 .. MaxArgMilli) \cup {19620000}}
EtaArgs == {FDiv(FDec(n, 1000), FInt(100)) : n \in {1000, 33333, 85000, 90000, 100000}}

-----------------------------------------------------------------------------
(* The helper functions, src/app.py lines 5-55                               *)

None == [none |-> TRUE]
Unset == [unset |-> TRUE]

CUSEC == "cusec (ft³/s)"
M3S == "m³/s"
FTS == "ft/s"
MPS == "m/s"
METERS == "meters"
FEET == "feet"

DischargeUnits == <<CUSEC, M3S>>
VelocityUnits == <<FTS, MPS>>
HeadUnits == <<METERS, FEET>>

\* unit tags a direct caller may pass: the six above and unrecognized ones
UnitArgs == {CUSEC, M3S, FTS, MPS, METERS, FEET, "cusec", "m3s", "furlong"}

CusecToM3s == FDec(283168, 10000000)
FootToMeter == FDec(3048, 10000)

\* divides where the code multiplies
convert_discharge_inverse(value, unit) ==
    IF unit = CUSEC THEN FDiv(value, CusecToM3s)
    ELSE IF unit = M3S THEN value
    ELSE value

convert_discharge(value, unit) ==
    IF unit = CUSEC THEN FMul(value, CusecToM3s)
    ELSE IF unit = M3S THEN value
    ELSE value

\* treats every tag but m/s as feet per second
convert_velocity_strict(value, unit) ==
    IF unit = MPS THEN value
    ELSE FMul(value, FootToMeter)

convert_velocity(value, unit) ==
    IF unit = FTS THEN FMul(value, FootToMeter)
    ELSE IF unit = MPS THEN value
    ELSE value

convert_head(value, unit) ==
    IF unit = METERS THEN value
    ELSE IF unit = FEET THEN FMul(value, FootToMeter)
    ELSE value

\* leaves out g
hydraulic_power_no_g(rho_, g_, Q, H) == FMul(FMul(rho_, Q), H)

hydraulic_power(rho_, g_, Q, H) == FMul(FMul(FMul(rho_, g_), Q), H)

\* divides by the efficiencies
actual_power_divided(P, eta_t, eta_g) == FDiv(FDiv(P, eta_t), eta_g)

actual_power(P, eta_t, eta_g) == FMul(FMul(P, eta_t), eta_g)

IsFloat(x) == DOMAIN x = {"s", "m", "e"}
Raised(x) == DOMAIN x = {"raise"}

\* math.sqrt(x): raises ValueError on a negative argument; an exception
\* raised while evaluating the argument propagates
math_sqrt(x) ==
    IF Raised(x) THEN x
    ELSE IF FLt(x, FInt(0)) THEN [raise |-> "ValueError"]
    ELSE FSqrt(x)

\* tests v < 0, so that v == 0 reaches the division
penstock_diameter_lt(Q, v) ==
    IF FLt(v, FInt(0)) THEN None
    ELSE math_sqrt(FDiv(FMul(FInt(4), Q), FMul(Pi, v)))

\* also rejects a discharge that is not positive
penstock_diameter_q(Q, v) ==
    IF FLe(v, FInt(0)) \/ FLe(Q, FInt(0)) THEN None
    ELSE math_sqrt(FDiv(FMul(FInt(4), Q), FMul(Pi, v)))

\* 4 * Q / math.pi * v, without the parentheses around the divisor
penstock_diameter_prec(Q, v) ==
    IF FLe(v, FInt(0)) THEN None
    ELSE math_sqrt(FMul(FDiv(FMul(FInt(4), Q), Pi), v))

penstock_diameter(Q, v) ==
    IF FLe(v, FInt(0)) THEN None
    ELSE math_sqrt(FDiv(FMul(FInt(4), Q), FMul(Pi, v)))

PELTON == "Pelton Turbine (High Head)"
FRANCIS == "Francis Turbine (Medium Head)"
KAPLAN == "Kaplan / Propeller Turbine (Low Head)"

\* H >= 300 where the code has H > 300
suggest_turbine_ge(H) ==
    IF FLe(FInt(300), H) THEN PELTON
    ELSE IF FLe(FInt(50), H) /\ FLe(H, FInt(300)) THEN FRANCIS
    ELSE KAPLAN

suggest_turbine(H) ==
    IF FGt(H, FInt(300)) THEN PELTON
    ELSE IF FLe(FInt(50), H) /\ FLe(H, FInt(300)) THEN FRANCIS
    ELSE KAPLAN

\* lb/ft3
W == FDec(624, 10)

power_imperial(Qc, Hf, eta_t, eta_g) ==
    FDiv(FMul(FMul(FMul(FMul(FMul(W, Qc), Hf), eta_t), eta_g), FInt(746)),
         FInt(550 * 1000))

\* Python truthiness of a float-or-None: None and 0.0 are false
Truthy(x) == x # None /\ ~FIsZero(x)

-----------------------------------------------------------------------------
(* The script, src/app.py lines 58-127.  Streamlit runs it top to bottom     *)
(* and reruns it from scratch whenever a widget changes.                     *)

VARIABLES
    Q_value, Q_unit, v_value, v_unit, H_value, H_unit,   \* widgets, lines 68-77
    eta_turbine, eta_generator,                          \* lines 81-82
    Q_m3s, v_mps, H_m,                                   \* lines 86-88
    Q_cusec, H_ft,                                       \* lines 91-92
    P_hydraulic_W, P_actual_W, P_imperial_kW,            \* lines 96-98
    D_penstock_m, D_penstock_in,                         \* lines 101-102
    shown,                                               \* what lines 105-127 rendered
    pc,                                                  \* position of the script run
    call, ret                                            \* a direct call of a helper

widgets == <<Q_value, Q_unit, v_value, v_unit, H_value, H_unit, eta_turbine, eta_generator>>
conv == <<Q_m3s, v_mps, H_m>>
imp == <<Q_cusec, H_ft>>
power == <<P_hydraulic_W, P_actual_W, P_imperial_kW>>
pen == <<D_penstock_m, D_penstock_in>>
direct == <<call, ret>>
vars == <<widgets, conv, imp, power, pen, shown, pc, direct>>

\* number_input(...) / 100
Efficiency(pct) == FDiv(FInt(pct), FInt(100))

\* a fresh run of the script: nothing computed or rendered yet
Fresh ==
    /\ Q_m3s' = Unset /\ v_mps' = Unset /\ H_m' = Unset
    /\ Q_cusec' = Unset /\ H_ft' = Unset
    /\ P_hydraulic_W' = Unset /\ P_actual_W' = Unset /\ P_imperial_kW' = Unset
    /\ D_penstock_m' = Unset /\ D_penstock_in' = Unset
    /\ shown' = Unset
    /\ pc' = "convert"

Init ==
    /\ Q_value = FInt(50) /\ Q_unit = DischargeUnits[1]
    /\ v_value = FInt(3) /\ v_unit = VelocityUnits[1]
    /\ H_value = FInt(25) /\ H_unit = HeadUnits[1]
    /\ eta_turbine = Efficiency(85) /\ eta_generator = Efficiency(90)
    /\ Q_m3s = Unset /\ v_mps = Unset /\ H_m = Unset
    /\ Q_cusec = Unset /\ H_ft = Unset
    /\ P_hydraulic_W = Unset /\ P_actual_W = Unset /\ P_imperial_kW = Unset
    /\ D_penstock_m = Unset /\ D_penstock_in = Unset
    /\ shown = Unset
    /\ pc = "convert"
    /\ call = [fn |-> "none", args |-> << >>, returned |-> FALSE]
    /\ ret = Unset

SetDischargeValue ==
    /\ pc = "done"
    /\ \E q \in QInputs \ {Q_value} : Q_value' = q
    /\ Fresh
    /\ UNCHANGED <<Q_unit, v_value, v_unit, H_value, H_unit, eta_turbine, eta_generator, direct>>

SetDischargeUnit ==
    /\ pc = "done"
    /\ \E i \in 1..Len(DischargeUnits) : DischargeUnits[i] # Q_unit /\ Q_unit' = DischargeUnits[i]
    /\ Fresh
    /\ UNCHANGED <<Q_value, v_value, v_unit, H_value, H_unit, eta_turbine, eta_generator, direct>>

SetVelocityValue ==
    /\ pc = "done"
    /\ \E v \in VInputs \ {v_value} : v_value' = v
    /\ Fresh
    /\ UNCHANGED <<Q_value, Q_unit, v_unit, H_value, H_unit, eta_turbine, eta_generator, direct>>

SetVelocityUnit ==
    /\ pc = "done"
    /\ \E i \in 1..Len(VelocityUnits) : VelocityUnits[i] # v_unit /\ v_unit' = VelocityUnits[i]
    /\ Fresh
    /\ UNCHANGED <<Q_value, Q_unit, v_value, H_value, H_unit, eta_turbine, eta_generator, direct>>

SetHeadValue ==
    /\ pc = "done"
    /\ \E h \in HInputs \ {H_value} : H_value' = h
    /\ Fresh
    /\ UNCHANGED <<Q_value, Q_unit, v_value, v_unit, H_unit, eta_turbine, eta_generator, direct>>

SetHeadUnit ==
    /\ pc = "done"
    /\ \E i \in 1..Len(HeadUnits) : HeadUnits[i] # H_unit /\ H_unit' = HeadUnits[i]
    /\ Fresh
    /\ UNCHANGED <<Q_value, Q_unit, v_value, v_unit, H_value, eta_turbine, eta_generator, direct>>

SetTurbineEfficiency ==
    /\ pc = "done"
    /\ \E p \in EtaTurbinePct : Efficiency(p) # eta_turbine /\ eta_turbine' = Efficiency(p)
    /\ Fresh
    /\ UNCHANGED <<Q_value, Q_unit, v_value, v_unit, H_value, H_unit, eta_generator, direct>>

SetGeneratorEfficiency ==
    /\ pc = "done"
    /\ \E p \in EtaGeneratorPct : Efficiency(p) # eta_generator /\ eta_generator' = Efficiency(p)
    /\ Fresh
    /\ UNCHANGED <<Q_value, Q_unit, v_value, v_unit, H_value, H_unit, eta_turbine, direct>>

\* lines 86-88
Conversions ==
    /\ pc = "convert"
    /\ Q_m3s' = convert_discharge(Q_value, Q_unit)
    /\ v_mps' = convert_velocity(v_value, v_unit)
    /\ H_m' = convert_head(H_value, H_unit)
    /\ pc' = "imperial"
    /\ UNCHANGED <<widgets, imp, power, pen, shown, direct>>

\* multiplies where the code divides
discharge_cusec_mul(value, unit, Qsi) ==
    IF unit = CUSEC THEN value ELSE FMul(Qsi, CusecToM3s)

\* line 91
discharge_cusec(value, unit, Qsi) ==
    IF unit = CUSEC THEN value ELSE FDiv(Qsi, CusecToM3s)

FeetPerMeter == FDec(3281, 1000)

\* lines 91-92
ImperialInputs ==
    /\ pc = "imperial"
    /\ Q_cusec' = discharge_cusec(Q_value, Q_unit, Q_m3s)
    /\ H_ft' = FMul(H_m, FeetPerMeter)
    /\ pc' = "calc"
    /\ UNCHANGED <<widgets, conv, power, pen, shown, direct>>

\* line 95
rho == FInt(1000)
g == FDec(981, 100)

\* lines 95-98
Calculations ==
    /\ pc = "calc"
    /\ P_hydraulic_W' = hydraulic_power(rho, g, Q_m3s, H_m)
    /\ P_actual_W' = actual_power(P_hydraulic_W', eta_turbine, eta_generator)
    /\ P_imperial_kW' = power_imperial(Q_cusec, H_ft, eta_turbine, eta_generator)
    /\ pc' = "penstock"
    /\ UNCHANGED <<widgets, conv, imp, pen, shown, direct>>

InchesPerMeter == FDec(393701, 10000)

\* lines 101-102
PenstockDiameter ==
    /\ pc = "penstock"
    /\ D_penstock_m' = penstock_diameter(Q_m3s, v_mps)
    /\ D_penstock_in' = IF Truthy(D_penstock_m') THEN FMul(D_penstock_m', InchesPerMeter) ELSE None
    /\ pc' = "render"
    /\ UNCHANGED <<widgets, conv, imp, power, shown, direct>>

\* lines 105-127; the numbers are kept as the floats that are formatted
Results ==
    /\ pc = "render"
    /\ shown' = [hydraulic_kW |-> FDiv(P_hydraulic_W, FInt(1000)),
                 actual_kW |-> FDiv(P_actual_W, FInt(1000)),
                 imperial_kW |-> P_imperial_kW,
                 penstock |-> IF Truthy(D_penstock_m)
                              THEN [success |-> <<D_penstock_m, D_penstock_in, v_mps>>]
                              ELSE [error |-> "Invalid velocity selected."],
                 turbine |-> suggest_turbine(H_m)]
    /\ pc' = "done"
    /\ UNCHANGED <<widgets, conv, imp, power, pen, direct>>

Next ==
    \/ SetDischargeValue \/ SetDischargeUnit
    \/ SetVelocityValue \/ SetVelocityUnit
    \/ SetHeadValue \/ SetHeadUnit
    \/ SetTurbineEfficiency \/ SetGeneratorEfficiency
    \/ Conversions \/ ImperialInputs \/ Calculations \/ PenstockDiameter \/ Results

Spec == Init /\ [][Next]_vars

-----------------------------------------------------------------------------
(* Direct calls of the helper functions, with arguments beyond what the     *)
(* widgets can produce (negative values, unrecognized unit tags).            *)

script == <<widgets, conv, imp, power, pen, shown, pc>>

Calls ==
    {[fn |-> f, args |-> <<value, unit>>, returned |-> FALSE] :
        f \in {"convert_discharge", "convert_velocity", "convert_head"},
        value \in ValArgs, unit \in UnitArgs}
    \cup {[fn |-> "actual_power", args |-> <<P, eta_t, eta_g>>, returned |-> FALSE] :
             P \in PArgs, eta_t \in EtaArgs, eta_g \in EtaArgs}
    \cup {[fn |-> "penstock_diameter", args |-> <<Q, v>>, returned |-> FALSE] : Q \in QArgs, v \in VArgs}
    \cup {[fn |-> "suggest_turbine", args |-> <<H>>, returned |-> FALSE] : H \in HArgs}

\* the script has not run; one call with its arguments is about to be made
FnInit ==
    /\ Q_value = FInt(50) /\ Q_unit = DischargeUnits[1]
    /\ v_value = FInt(3) /\ v_unit = VelocityUnits[1]
    /\ H_value = FInt(25) /\ H_unit = HeadUnits[1]
    /\ eta_turbine = Efficiency(85) /\ eta_generator = Efficiency(90)
    /\ Q_m3s = Unset /\ v_mps = Unset /\ H_m = Unset
    /\ Q_cusec = Unset /\ H_ft = Unset
    /\ P_hydraulic_W = Unset /\ P_actual_W = Unset /\ P_imperial_kW = Unset
    /\ D_penstock_m = Unset /\ D_penstock_in = Unset
    /\ shown = Unset
    /\ pc = "convert"
    /\ call \in Calls
    /\ ret = Unset

Call_convert_discharge ==
    /\ call.fn = "convert_discharge" /\ ~call.returned
    /\ ret' = convert_discharge(call.args[1], call.args[2])
    /\ call' = [call EXCEPT !.returned = TRUE]
    /\ UNCHANGED script

Call_convert_velocity ==
    /\ call.fn = "convert_velocity" /\ ~call.returned
    /\ ret' = convert_velocity(call.args[1], call.args[2])
    /\ call' = [call EXCEPT !.returned = TRUE]
    /\ UNCHANGED script

Call_convert_head ==
    /\ call.fn = "convert_head" /\ ~call.returned
    /\ ret' = convert_head(call.args[1], call.args[2])
    /\ call' = [call EXCEPT !.returned = TRUE]
    /\ UNCHANGED script

Call_actual_power ==
    /\ call.fn = "actual_power" /\ ~call.returned
    /\ ret' = actual_power(call.args[1], call.args[2], call.args[3])
    /\ call' = [call EXCEPT !.returned = TRUE]
    /\ UNCHANGED script

Call_penstock_diameter ==
    /\ call.fn = "penstock_diameter" /\ ~call.returned
    /\ ret' = penstock_diameter(call.args[1], call.args[2])
    /\ call' = [call EXCEPT !.returned = TRUE]
    /\ UNCHANGED script

Call_suggest_turbine ==
    /\ call.fn = "suggest_turbine" /\ ~call.returned
    /\ ret' = suggest_turbine(call.args[1])
    /\ call' = [call EXCEPT !.returned = TRUE]
    /\ UNCHANGED script

FnNext ==
    \/ Call_convert_discharge \/ Call_convert_velocity \/ Call_convert_head
    \/ Call_actual_power \/ Call_penstock_diameter \/ Call_suggest_turbine

FnSpec == FnInit /\ [][FnNext]_vars

-----------------------------------------------------------------------------
(* Properties                                                                *)

\* |x - y| <= y / 2^k for floats x, y >= 0
RelClose(x, y, k) ==
    IF FIsZero(y) THEN FIsZero(x)
    ELSE IF FIsZero(x) \/ x.e - y.e > 1 \/ y.e - x.e > 1 THEN FALSE
    ELSE LET e0 == IF x.e < y.e THEN x.e ELSE y.e
             X == BShl(x.m, x.e - e0)
             Y == BShl(y.m, y.e - e0)
             diff == IF BCmp(X, Y) >= 0 THEN BSub(X, Y) ELSE BSub(Y, X)
         IN  BCmp(BShl(diff, k), Y) <= 0

Returned(f) == call.fn = f /\ call.returned

\* C1: for every net head H >= 0, suggest_turbine(H) is Pelton iff H > 300,
\* Francis iff 50 <= H <= 300 and Kaplan / Propeller iff H < 50.
C1_TurbineBands ==
    (Returned("suggest_turbine") /\ FLe(FInt(0), call.args[1])) =>
        LET H == call.args[1]
        IN  /\ ret \in {PELTON, FRANCIS, KAPLAN}
            /\ (ret = PELTON) <=> FGt(H, FInt(300))
            /\ (ret = FRANCIS) <=> (FLe(FInt(50), H) /\ FLe(H, FInt(300)))
            /\ (ret = KAPLAN) <=> FLt(H, FInt(50))

\* a head of exactly 300 m was classified as Francis
C1_Witness ==
    /\ Returned("suggest_turbine")
    /\ FEq(call.args[1], FInt(300))
    /\ ret = FRANCIS

\* C2: for every discharge Q >= 0 and every velocity v, penstock_diameter(Q, v)
\* returns None iff v <= 0, and never raises.
C2_AbsentIffNonPositiveVelocity ==
    (Returned("penstock_diameter") /\ FLe(FInt(0), call.args[1])) =>
        /\ ~Raised(ret)
        /\ (ret = None) <=> FLe(call.args[2], FInt(0))

\* a zero velocity with a positive discharge returned None
C2_Witness ==
    /\ Returned("penstock_diameter")
    /\ FGt(call.args[1], FInt(0))
    /\ FIsZero(call.args[2])
    /\ ret = None

\* C3, as stated: for every Q >= 0, Q = 0 included, and every v > 0 the
\* returned diameter is defined and strictly positive.
C3_StrictlyPositive ==
    (/\ Returned("penstock_diameter")
     /\ FLe(FInt(0), call.args[1])
     /\ FGt(call.args[2], FInt(0))) =>
        (IsFloat(ret) /\ FGt(ret, FInt(0)))

\* C3, amended: for every Q >= 0 and every v > 0 the returned diameter is
\* defined and not negative; it is 0.0 for Q = 0 and positive for Q > 0.
C3_NonNegative ==
    (/\ Returned("penstock_diameter")
     /\ FLe(FInt(0), call.args[1])
     /\ FGt(call.args[2], FInt(0))) =>
        /\ IsFloat(ret)
        /\ FLe(FInt(0), ret)
        /\ FGt(ret, FInt(0)) <=> FGt(call.args[1], FInt(0))

\* a zero discharge with a positive velocity returned the diameter 0.0
C3_Witness ==
    /\ Returned("penstock_diameter")
    /\ FIsZero(call.args[1])
    /\ FGt(call.args[2], FInt(0))
    /\ IsFloat(ret) /\ FIsZero(ret)

\* C4, as stated: convert_discharge(Q, "cusec") == Q * 0.0283168.
C4_LiteralCusecTag ==
    (Returned("convert_discharge") /\ call.args[2] = "cusec") =>
        FEq(ret, FMul(call.args[1], FDec(283168, 10000000)))

\* C4, amended: convert_discharge(Q, "cusec (ft³/s)") == Q * 0.0283168, and
\* the tag "cusec" is not recognized: convert_discharge(Q, "cusec") == Q.
C4_CusecScaled ==
    Returned("convert_discharge") =>
        /\ call.args[2] = "cusec (ft³/s)" =>
              FEq(ret, FMul(call.args[1], FDec(283168, 10000000)))
        /\ call.args[2] = "cusec" => FEq(ret, call.args[1])

\* 0.029 tagged "cusec (ft³/s)" was scaled to a smaller value
C4_Witness ==
    /\ Returned("convert_discharge")
    /\ call.args[2] = "cusec (ft³/s)"
    /\ call.args[1] = FDec(29, 1000)
    /\ FLt(ret, call.args[1]) /\ FGt(ret, FInt(0))

\* C5: each converter returns its input unchanged for the SI tag and for
\* every unrecognized tag, and never fails; only the imperial tag of its
\* quantity changes the value (feet and feet per second multiply by 0.3048).
C5_PassThrough ==
    /\ Returned("convert_discharge") =>
          /\ IsFloat(ret)
          /\ call.args[2] # "cusec (ft³/s)" => ret = call.args[1]
    /\ Returned("convert_velocity") =>
          /\ IsFloat(ret)
          /\ call.args[2] # "ft/s" => ret = call.args[1]
          /\ call.args[2] = "ft/s" => FEq(ret, FMul(call.args[1], FDec(3048, 10000)))
    /\ Returned("convert_head") =>
          /\ IsFloat(ret)
          /\ call.args[2] # "feet" => ret = call.args[1]
          /\ call.args[2] = "feet" => FEq(ret, FMul(call.args[1], FDec(3048, 10000)))

\* a velocity with an unrecognized tag came back unchanged
C5_Witness ==
    /\ Returned("convert_velocity")
    /\ call.args[2] \notin {"ft/s", "m/s"}
    /\ ~FIsZero(call.args[1])
    /\ ret = call.args[1]

\* C6: for P >= 0 and efficiencies in (0, 1], 0 <= actual_power <= P, and
\* actual_power(P, 1.0, 1.0) == P.
C6_ActualWithinHydraulic ==
    (/\ Returned("actual_power")
     /\ FLe(FInt(0), call.args[1])
     /\ FGt(call.args[2], FInt(0)) /\ FLe(call.args[2], FInt(1))
     /\ FGt(call.args[3], FInt(0)) /\ FLe(call.args[3], FInt(1))) =>
        /\ IsFloat(ret)
        /\ FLe(FInt(0), ret) /\ FLe(ret, call.args[1])
        /\ (FEq(call.args[2], FInt(1)) /\ FEq(call.args[3], FInt(1))) =>
              FEq(ret, call.args[1])

\* a positive power with efficiencies below 1 came back smaller
C6_Witness ==
    /\ Returned("actual_power")
    /\ FGt(call.args[1], FInt(0))
    /\ FLt(call.args[2], FInt(1)) /\ FLt(call.args[3], FInt(1))
    /\ FLt(ret, call.args[1])

\* C8: for Q >= 0 and v > 0 the diameter D satisfies (pi / 4) * D^2 * v = Q
\* within floating-point tolerance (here: a relative error of at most 2^-50).
C8_Continuity ==
    (/\ Returned("penstock_diameter")
     /\ FLe(FInt(0), call.args[1])
     /\ FGt(call.args[2], FInt(0))) =>
        /\ IsFloat(ret)
        /\ RelClose(FMul(FMul(FDiv(Pi, FInt(4)), FMul(ret, ret)), call.args[2]),
                    call.args[1], 50)

\* Q = 100, v = 6 gave a diameter between 4.606 and 4.607
C8_Witness ==
    /\ Returned("penstock_diameter")
    /\ call.args[1] = FInt(100) /\ call.args[2] = FInt(6)
    /\ IsFloat(ret)
    /\ FLt(FDec(4606, 1000), ret) /\ FLt(ret, FDec(4607, 1000))

After(stage) ==
    LET order == <<"convert", "imperial", "calc", "penstock", "render", "done">>
    IN  \E i, j \in 1..Len(order) : order[i] = stage /\ order[j] = pc /\ j > i

\* C7: with rho = 1000 and g = 9.81 the script computes hydraulic_power =
\* rho * g * Q * H over the SI discharge and head and actual_power =
\* hydraulic_power * eta_turbine * eta_generator; Q = 100 m3/s and H = 20 m
\* give 19,620,000 W, and efficiencies 0.85 and 0.90 then give 15,009,300 W.
C7_PowerPipeline ==
    After("calc") =>
        /\ P_hydraulic_W = FMul(FMul(FMul(FInt(1000), FDec(981, 100)), Q_m3s), H_m)
        /\ P_actual_W = FMul(FMul(P_hydraulic_W, eta_turbine), eta_generator)
        /\ (/\ Q_value = FInt(100) /\ Q_unit = "m³/s"
            /\ H_value = FInt(20) /\ H_unit = "meters") =>
              /\ P_hydraulic_W = FInt(19620000)
              /\ (eta_turbine = FDec(85, 100) /\ eta_generator = FDec(90, 100)) =>
                    P_actual_W = FInt(15009300)

\* the run for 100 m3/s, 20 m, 85 % and 90 % finished with 15,009,300 W
C7_Witness ==
    /\ pc = "done"
    /\ Q_value = FInt(100) /\ Q_unit = "m³/s"
    /\ H_value = FInt(20) /\ H_unit = "meters"
    /\ eta_turbine = FDec(85, 100) /\ eta_generator = FDec(90, 100)
    /\ P_actual_W = FInt(15009300)

\* C9, as stated: Q_cusec is the raw input for the cusec unit and the SI
\* discharge divided by 0.0283168 otherwise, and for both units
\* Q_cusec * 0.0283168 equals the SI discharge.
C9_ExactRoundTrip ==
    After("imperial") =>
        /\ Q_unit = "cusec (ft³/s)" => Q_cusec = Q_value
        /\ Q_unit # "cusec (ft³/s)" => Q_cusec = FDiv(Q_m3s, FDec(283168, 10000000))
        /\ FEq(FMul(Q_cusec, FDec(283168, 10000000)), Q_m3s)

\* C9, amended: Q_cusec * 0.0283168 equals the SI discharge exactly for the
\* cusec unit, and up to a relative rounding error of 2^-51 for m3/s.
C9_RoundTrip ==
    After("imperial") =>
        /\ Q_unit = "cusec (ft³/s)" =>
              /\ Q_cusec = Q_value
              /\ FEq(FMul(Q_cusec, FDec(283168, 10000000)), Q_m3s)
        /\ Q_unit # "cusec (ft³/s)" =>
              /\ Q_cusec = FDiv(Q_m3s, FDec(283168, 10000000))
              /\ RelClose(FMul(Q_cusec, FDec(283168, 10000000)), Q_m3s, 51)

\* 0.029 m3/s went to cusec, and back to a float that is not 0.029
C9_Witness ==
    /\ After("imperial")
    /\ Q_unit = "m³/s" /\ Q_value = FDec(29, 1000)
    /\ ~FEq(FMul(Q_cusec, FDec(283168, 10000000)), Q_m3s)

\* C10: the page shows "Invalid velocity selected." iff the SI velocity is
\* <= 0; for every velocity > 0 and discharge >= 0 it shows the diameter.
C10_ErrorIffBadVelocity ==
    pc = "done" =>
        (shown.penstock = [error |-> "Invalid velocity selected."]
            <=> FLe(v_mps, FInt(0)))

====
